---- MODULE Spec2Model ----
(***************************************************************************)
(* NetView backend: the discovery epoch (DiscoveryService.run_discovery),  *)
(* the device cache (DeviceCache), the cached probe                        *)
(* (FastDiscoveryService.discover_devices), the interval job and the       *)
(* manual trigger (POST /topology/discover), and the topology builder      *)
(* (build_topology).                                                       *)
(*                                                                         *)
(* Python's None and a missing dict key are both written None here:        *)
(* d.get(k) of a missing key is None.  Time is counted in minutes.         *)
(***************************************************************************)
EXTENDS Integers, Sequences, FiniteSets, TLC

VARIABLES now, devices_cache, last_update, cache_file,
          db, run, last, manual, nEpochs,
          topoIn, topoOut, topoPrev,
          user_settings, ovIn, ovOut,
          macIn, macOut,
          read, probe_fault

vars == <<now, devices_cache, last_update, cache_file,
          db, run, last, manual, nEpochs, topoIn, topoOut, topoPrev,
          user_settings, ovIn, ovOut, macIn, macOut, read,
          probe_fault>>

cacheVars == <<devices_cache, last_update, cache_file>>
topoVars == <<topoIn, topoOut, topoPrev>>
\* the inputs and results of the functions called on their own
ovVars == <<ovIn, ovOut>>
macVars == <<macIn, macOut>>
callVars == <<topoVars, ovVars, macVars>>

None == "None"

(* ------------------------------ bounds --------------------------------- *)
MaxTime == 6
MaxEpochs == 2
MaxJobs == 2
MaxNeighbors == 3

(* --------------------------- program constants ------------------------- *)
cache_duration_minutes == 5
\* lookup_vendor: the OUI is the first 6 hex characters (3 octets)
OuiChars == 6
OuiOctets == 3
\* _get_vendor_from_mac: len(mac) < 8 gives "Unknown"
MinMacLen == 8

(* ------------------------------ helpers -------------------------------- *)
Range(s) == {s[i] : i \in DOMAIN s}

\* f"{a}{sep}{b}" of Python, on strings
Fmt(a, sep, b) == a \o sep \o b

(* ======================= observations (probe output) =================== *)
\* Field values of one observation: a dict as run_discovery reads it with
\* d.get(...).  interfaces is the list under d.get("interfaces", []).
Obs(id, ip, hostname, vendor, model, status, ifaces) ==
    [id |-> id, mgmtIp |-> ip, hostname |-> hostname, vendor |-> vendor,
     model |-> model, status |-> status, interfaces |-> ifaces]

Iface(ifIndex, name, mac) ==
    [ifIndex |-> ifIndex, name |-> name, speed |-> None, mac |-> mac,
     adminStatus |-> "up", operStatus |-> "up"]

\* what _get_simple_arp_devices builds for an ARP entry: every field set
devA  == Obs("10.0.0.5", "10.0.0.5", "nas", "Synology", "Unknown", "up", <<>>)
devB  == Obs("10.0.0.6", "10.0.0.6", "printer", "HP", "Unknown", "up", <<>>)
devC  == Obs("192.168.1.2", "192.168.1.2", "laptop", "Apple", "Unknown", "up", <<>>)
\* the observation of tests/test_bdd_discovery.py: no model, no status
devT  == Obs("dev1", "10.0.0.6", "switch1", "Generic", None, None,
             <<Iface(1, "Gi0/1", None)>>)
\* a partial observation of 10.0.0.5: hostname only, identity by mgmtIp
devA2 == Obs(None, "10.0.0.5", "nas-2", None, None, None, <<>>)
\* an observation with neither id nor mgmtIp
devN  == Obs(None, None, "ghost", None, None, None, <<>>)

\* The lists the neighbor-table probe may return in one epoch.
ProbeOutcomes ==
    { <<>>, <<devA>>, <<devC>>, <<devA, devB>>, <<devA2>>, <<devT>>,
      <<devC, devC>>, <<devA, devN>> }

(* ============================ DeviceCache ============================== *)
\* device.get('id', device.get('mgmtIp', ''))
CacheKey(device) ==
    IF device.id # None THEN device.id
    ELSE IF device.mgmtIp # None THEN device.mgmtIp ELSE ""

\* {key(device): device for device in devices}: a dict keeps the position of
\* the first insertion of a key and the value of the last.  The dict is the
\* sequence of its values in iteration order.
RECURSIVE DictFromList(_, _)
DictFromList(devices, acc) ==
    IF devices = <<>> THEN acc
    ELSE LET d == Head(devices)
             hit == {i \in DOMAIN acc : CacheKey(acc[i]) = CacheKey(d)}
         IN  DictFromList(Tail(devices),
                 IF hit = {} THEN Append(acc, d)
                 ELSE [acc EXCEPT ![CHOOSE i \in hit : TRUE] = d])

\* self.last_update = None (Optional[datetime])
NoTime == -1

\* datetime.isoformat(): the text written to the file
isoformat(t) == "T+" \o ToString(t) \o "min"

\* datetime.fromisoformat(): the time whose text is s
fromisoformat(s) == CHOOSE t \in 0..(MaxTime + 1) : isoformat(t) = s

\* is_cache_valid with the comparison <= in place of <
is_cache_valid_le(lu, t) ==
    IF lu = NoTime THEN FALSE
    ELSE t - lu <= cache_duration_minutes

\* is_cache_valid, evaluated at time t on a cache with timestamp lu
is_cache_valid(lu, t) ==
    IF lu = NoTime THEN FALSE
    ELSE t - lu < cache_duration_minutes

\* a read that returns the snapshot whatever its age
get_cached_devices_any_age(cache, lu, t) == cache

\* get_cached_devices
get_cached_devices(cache, lu, t) ==
    IF is_cache_valid(lu, t) THEN cache ELSE <<>>

\* The cache file: absent, unreadable ("corrupt": json.load raises), or the
\* JSON document {'devices': [...], 'last_update': ...}.
NoFile == [state |-> "absent", devices |-> <<>>, last_update |-> None]
CorruptFile == [state |-> "corrupt", devices |-> <<>>, last_update |-> None]

\* _save_to_file: the new content of the cache file.  io is what the file
\* system does: "ok", "open_fails" (the file is left as it was) or
\* "dump_fails" (opened for writing, hence truncated, and not completed).
\* Every exception is swallowed.
IoOutcomes == {"ok", "open_fails", "dump_fails"}

save_to_file(cache, lu, file, io) ==
    CASE io = "ok" -> [state |-> "json", devices |-> cache,
                       last_update |-> IF lu # NoTime THEN isoformat(lu) ELSE None]
      [] io = "open_fails" -> file
      [] OTHER -> CorruptFile

\* _load_from_file into a cache constructed with devices_cache = {} and
\* last_update = None: <<devices_cache, last_update>>
load_from_file(file) ==
    IF file.state # "json" THEN <<(<<>>), NoTime>>
    ELSE << DictFromList(file.devices, <<>>),
            IF file.last_update # None THEN fromisoformat(file.last_update)
            ELSE NoTime >>

\* update_cache(devices) at time t: <<devices_cache, last_update, cache_file>>
update_cache(devices, t, file, io) ==
    LET c == DictFromList(devices, <<>>)
    IN  <<c, t, save_to_file(c, t, file, io)>>

(* ===================== FastDiscoveryService.discover_devices =========== *)
\* discover_devices putting whatever a fresh probe returned, empty or not
discover_devices_put_always(force_refresh, cache, lu, file, t, probe, io) ==
    LET cached_devices == IF force_refresh THEN <<>>
                          ELSE get_cached_devices(cache, lu, t)
    IN  IF (~force_refresh) /\ Len(cached_devices) > 0
        THEN [devices |-> cached_devices, probed |-> FALSE,
              cache |-> <<cache, lu, file>>]
        ELSE [devices |-> probe, probed |-> TRUE,
              cache |-> update_cache(probe, t, file, io)]

\* discover_devices(db=None, force_refresh): the devices returned, whether
\* the probe was invoked, and the cache afterwards.  probe is what
\* _get_simple_arp_devices returns if it is called.
discover_devices(force_refresh, cache, lu, file, t, probe, io) ==
    LET cached_devices == IF force_refresh THEN <<>>
                          ELSE get_cached_devices(cache, lu, t)
    IN  IF (~force_refresh) /\ Len(cached_devices) > 0
        THEN [devices |-> cached_devices, probed |-> FALSE,
              cache |-> <<cache, lu, file>>]
        ELSE [devices |-> probe, probed |-> TRUE,
              cache |-> IF Len(probe) > 0
                        THEN update_cache(probe, t, file, io)
                        ELSE <<cache, lu, file>>]

(* ============================ build_topology =========================== *)
\* One LLDP neighbor observation; None is a missing key.
Neighbor(localDevice, localPort, chassisId, portId, sysName) ==
    [localDevice |-> localDevice, localPort |-> localPort,
     chassisId |-> chassisId, portId |-> portId, sysName |-> sysName]

\* d.get(k, '') of a key that may be missing
OrEmpty(x) == IF x = None THEN "" ELSE x

\* bool(x) of an optional string
Truthy(x) == x # None /\ x # ""

\* str.upper() on the hardware addresses of the model
Upper(s) ==
    CASE s = "aa:bb:cc:00:00:01" -> "AA:BB:CC:00:00:01"
      [] s = "aa:bb:cc:00:00:02" -> "AA:BB:CC:00:00:02"
      [] OTHER -> s

\* Method 1: the first device whose hostname equals sysName
RECURSIVE MatchSysName(_, _)
MatchSysName(devices, sysName) ==
    IF devices = <<>> THEN None
    ELSE IF Head(devices).hostname = sysName THEN Head(devices).mgmtIp
    ELSE MatchSysName(Tail(devices), sysName)

\* Method 2: the first device one of whose interfaces has the chassis MAC
RECURSIVE MatchChassis(_, _)
MatchChassis(devices, chassis) ==
    IF devices = <<>> THEN None
    ELSE IF \E i \in DOMAIN Head(devices).interfaces :
               Upper(OrEmpty(Head(devices).interfaces[i].mac)) = Upper(chassis)
         THEN Head(devices).mgmtIp
    ELSE MatchChassis(Tail(devices), chassis)

\* the resolution trying the chassis MAC before the system name
ResolveNeighborMacFirst(devices, n) ==
    LET byMac == IF Truthy(OrEmpty(n.chassisId))
                 THEN MatchChassis(devices, OrEmpty(n.chassisId)) ELSE None
    IN  IF (~Truthy(byMac)) /\ Truthy(OrEmpty(n.sysName))
        THEN MatchSysName(devices, OrEmpty(n.sysName))
        ELSE byMac

\* lines 22-41: the address of the remote device, or None
ResolveNeighbor(devices, n) ==
    LET bySys == IF Truthy(OrEmpty(n.sysName))
                 THEN MatchSysName(devices, OrEmpty(n.sysName)) ELSE None
    IN  IF (~Truthy(bySys)) /\ Truthy(OrEmpty(n.chassisId))
        THEN MatchChassis(devices, OrEmpty(n.chassisId))
        ELSE bySys

MakeEdge(local, localPort, remote, remotePort) ==
    [id |-> Fmt(Fmt(local, ":", localPort), "-", Fmt(remote, ":", remotePort)),
     from |-> local, to |-> remote,
     srcIfIndex |-> localPort, dstIfIndex |-> remotePort,
     linkType |-> "lldp", vlanTags |-> <<>>, confidence |-> 90]

\* the loop over neighbors: the edges appended, in order
RECURSIVE EmitEdges(_, _)
EmitEdges(devices, neighbors) ==
    IF neighbors = <<>> THEN <<>>
    ELSE LET n == Head(neighbors)
             rest == EmitEdges(devices, Tail(neighbors))
         IN  IF (~Truthy(n.localDevice)) \/ (~Truthy(n.localPort)) THEN rest
             ELSE LET remote == ResolveNeighbor(devices, n)
                  IN  IF Truthy(remote) /\ remote # n.localDevice
                      THEN <<MakeEdge(n.localDevice, n.localPort, remote,
                                      OrEmpty(n.portId))>> \o rest
                      ELSE rest

\* the normalized key of the duplicate filter: f"{a}-{b}"
EdgeKey(a, b) == Fmt(a, "-", b)

\* the duplicate filter testing key1 only (the reverse direction forgotten)
RECURSIVE UniqueEdgesOneWay(_, _)
UniqueEdgesOneWay(edges, seen_edges) ==
    IF edges = <<>> THEN <<>>
    ELSE LET e == Head(edges)
             key1 == EdgeKey(e.from, e.to)
         IN  IF key1 \notin seen_edges
             THEN <<e>> \o UniqueEdgesOneWay(Tail(edges), seen_edges \cup {key1})
             ELSE UniqueEdgesOneWay(Tail(edges), seen_edges)

\* the duplicate filter: unique_edges, given the keys seen so far
RECURSIVE UniqueEdges(_, _)
UniqueEdges(edges, seen_edges) ==
    IF edges = <<>> THEN <<>>
    ELSE LET e == Head(edges)
             key1 == EdgeKey(e.from, e.to)
             key2 == EdgeKey(e.to, e.from)
         IN  IF key1 \notin seen_edges /\ key2 \notin seen_edges
             THEN <<e>> \o UniqueEdges(Tail(edges), seen_edges \cup {key1, key2})
             ELSE UniqueEdges(Tail(edges), seen_edges)

\* build_topology whose duplicate filter keeps the last edge of a pair
build_topology_keep_last(devices, neighbors) ==
    IF \E i \in DOMAIN devices : devices[i].mgmtIp = None
    THEN [raised |-> TRUE, nodes |-> <<>>, edges |-> <<>>]
    ELSE [raised |-> FALSE, nodes |-> devices,
          edges |->
              LET rev(q) == [i \in DOMAIN q |-> q[Len(q) + 1 - i]]
              IN  rev(UniqueEdges(rev(EmitEdges(devices, neighbors)), {}))]

\* build_topology(devices, forwarding_tables, neighbors).  The lookup table
\* {device['mgmtIp']: device ...} raises KeyError for a device without mgmtIp.
build_topology(devices, neighbors) ==
    IF \E i \in DOMAIN devices : devices[i].mgmtIp = None
    THEN [raised |-> TRUE, nodes |-> <<>>, edges |-> <<>>]
    ELSE [raised |-> FALSE, nodes |-> devices,
          edges |-> UniqueEdges(EmitEdges(devices, neighbors), {})]

(* ====================== persisted inventory (models.py) ================ *)
\* A table is a function from primary key to row.
EmptyTable == <<>>

DeviceRow(hostname, mgmt_ip, vendor, model, status) ==
    [hostname |-> hostname, mgmt_ip |-> mgmt_ip, vendor |-> vendor,
     model |-> model, status |-> status]

InterfaceRow(device_id, if_index, name, speed, mac, admin_status, oper_status) ==
    [device_id |-> device_id, if_index |-> if_index, name |-> name,
     speed |-> speed, mac |-> mac, admin_status |-> admin_status,
     oper_status |-> oper_status]

EdgeRow(src, srcIf, dst, dstIf, link_type, vlan_tags, confidence) ==
    [src_device_id |-> src, src_if_index |-> srcIf, dst_device_id |-> dst,
     dst_if_index |-> dstIf, link_type |-> link_type, vlan_tags |-> vlan_tags,
     confidence |-> confidence]

EmptyInventory ==
    [devices |-> EmptyTable, interfaces |-> EmptyTable, edges |-> EmptyTable]

\* An inventory left in netview.db by earlier runs: two devices of the
\* 10.0.0.x network, an interface and a link between them.
SeededInventory ==
    [devices |->
        ("10.0.0.5" :> DeviceRow("nas", "10.0.0.5", "Synology", "DS920", "up"))
     @@ ("10.0.0.6" :> DeviceRow("printer", "10.0.0.6", "HP", "M404", "up")),
     interfaces |->
        ("10.0.0.5:1" :> InterfaceRow("10.0.0.5", 1, "eth0", None, None, "up", "up")),
     edges |->
        ("10.0.0.5:1-10.0.0.6:2" :>
            EdgeRow("10.0.0.5", "1", "10.0.0.6", "2", "lldp", <<>>, 90))]

InitialInventories == {EmptyInventory, SeededInventory}

\* table with row r stored under key k
Put(tbl, k, r) == (k :> r) @@ tbl

(* ===================== DiscoveryService.run_discovery ================== *)
\* d.get("id") or d.get("mgmtIp")
Identity(d) == IF Truthy(d.id) THEN d.id ELSE d.mgmtIp

\* the snapshot returned when no device was found (lines 23-35)
ExistingNodes(inv) ==
    { [id |-> k,
       label |-> IF Truthy(inv.devices[k].hostname)
                 THEN inv.devices[k].hostname ELSE k,
       title |-> inv.devices[k].mgmt_ip,
       group |-> IF Truthy(inv.devices[k].vendor)
                 THEN inv.devices[k].vendor ELSE "device"]
      : k \in DOMAIN inv.devices }

\* lines 38-43: the persisted addresses are non-empty and none was observed
NetworkChanged(devices, inv) ==
    LET current_ips == {devices[i].mgmtIp : i \in
                           {j \in DOMAIN devices : Truthy(devices[j].mgmtIp)}}
        existing_ips == {inv.devices[k].mgmt_ip : k \in DOMAIN inv.devices}
    IN  existing_ips # {} /\ current_ips \cap existing_ips = {}

\* lines 37-50 without the empty-result return of lines 20-35
BeginInventoryNoGuard(devices, inv) ==
    IF NetworkChanged(devices, inv) THEN EmptyInventory ELSE inv

\* lines 20-50: the inventory as committed when the upsert starts.  With no
\* device the epoch returns at once; on a network change the three tables
\* are emptied and that is committed.
BeginInventory(devices, inv) ==
    IF Len(devices) = 0 THEN inv
    ELSE IF NetworkChanged(devices, inv) THEN EmptyInventory
    ELSE inv

\* lines 61-65: the assignments to one Device object
AssignDevice(d) ==
    DeviceRow(d.hostname, d.mgmtIp, d.vendor, d.model,
              IF d.status = None THEN "up" ELSE d.status)

\* lines 53-67.  stored: the committed table the queries read (autoflush is
\* off, so an object added in this session is not found by a later query);
\* acc.tbl: the table as the session will write it; acc.new: keys of the
\* objects created in this session; acc.dup: two objects were created with
\* one primary key, so the flush at commit raises IntegrityError.
RECURSIVE UpsertDevices(_, _, _)
UpsertDevices(devices, stored, acc) ==
    IF devices = <<>> THEN acc
    ELSE LET d == Head(devices)
             device_id == Identity(d)
         IN  IF ~Truthy(device_id)
             THEN UpsertDevices(Tail(devices), stored, acc)
             ELSE UpsertDevices(Tail(devices), stored,
                    [tbl |-> Put(acc.tbl, device_id, AssignDevice(d)),
                     new |-> IF device_id \in DOMAIN stored THEN acc.new
                             ELSE acc.new \cup {device_id},
                     dup |-> acc.dup \/ (device_id \notin DOMAIN stored
                                         /\ device_id \in acc.new)])

\* lines 73-83 for the interfaces of one device
RECURSIVE UpsertIfaces(_, _, _, _)
UpsertIfaces(ifaces, device_id, stored, acc) ==
    IF ifaces = <<>> THEN acc
    ELSE LET i == Head(ifaces)
             iface_id == Fmt(device_id, ":", ToString(i.ifIndex))
             row == IF iface_id \in DOMAIN stored
                    THEN InterfaceRow(acc.tbl[iface_id].device_id,
                                      acc.tbl[iface_id].if_index,
                                      i.name, i.speed, i.mac,
                                      i.adminStatus, i.operStatus)
                    ELSE InterfaceRow(device_id, i.ifIndex, i.name, i.speed,
                                      i.mac, i.adminStatus, i.operStatus)
         IN  UpsertIfaces(Tail(ifaces), device_id, stored,
                [tbl |-> Put(acc.tbl, iface_id, row),
                 new |-> IF iface_id \in DOMAIN stored THEN acc.new
                         ELSE acc.new \cup {iface_id},
                 dup |-> acc.dup \/ (iface_id \notin DOMAIN stored
                                     /\ iface_id \in acc.new)])

\* lines 70-83
RECURSIVE UpsertInterfaces(_, _, _)
UpsertInterfaces(devices, stored, acc) ==
    IF devices = <<>> THEN acc
    ELSE UpsertInterfaces(Tail(devices), stored,
            UpsertIfaces(Head(devices).interfaces, Identity(Head(devices)),
                         stored, acc))

\* e.get(k) or dflt
OrDefault(x, dflt) == IF Truthy(x) THEN x ELSE dflt

\* lines 93-105: the edges table replaced by the builder's edges
RECURSIVE InsertEdges(_, _)
InsertEdges(edges, acc) ==
    IF edges = <<>> THEN acc
    ELSE LET e == Head(edges)
         IN  InsertEdges(Tail(edges),
                [tbl |-> Put(acc.tbl, e.id,
                             EdgeRow(e.from, OrDefault(e.srcIfIndex, "0"),
                                     e.to, OrDefault(e.dstIfIndex, "0"),
                                     OrDefault(e.linkType, "unknown"),
                                     e.vlanTags, e.confidence)),
                 new |-> acc.new \cup {e.id},
                 dup |-> acc.dup \/ e.id \in acc.new])

NewAcc(tbl) == [tbl |-> tbl, new |-> {}, dup |-> FALSE]

\* lines 52-108 writing the observed devices and interfaces over emptied
\* tables instead of the stored ones
UpsertAndCommitObservedOnly(devices, inv) ==
    LET devs == UpsertDevices(devices, EmptyTable, NewAcc(EmptyTable))
        ifs == UpsertInterfaces(devices, EmptyTable, NewAcc(EmptyTable))
        topo == build_topology(devices, <<>>)
        eds == InsertEdges(topo.edges, NewAcc(EmptyTable))
    IN  IF topo.raised \/ devs.dup \/ ifs.dup \/ eds.dup
        THEN [raised |-> TRUE, inv |-> inv, topo |-> topo]
        ELSE [raised |-> FALSE,
              inv |-> [devices |-> devs.tbl, interfaces |-> ifs.tbl,
                       edges |-> eds.tbl],
              topo |-> topo]

\* lines 52-108 on the inventory inv (as committed when the upsert starts):
\* the inventory committed at line 107, or raised = TRUE when build_topology
\* or the commit raises, and then nothing of this part is committed.
UpsertAndCommit(devices, inv) ==
    LET devs == UpsertDevices(devices, inv.devices, NewAcc(inv.devices))
        ifs == UpsertInterfaces(devices, inv.interfaces, NewAcc(inv.interfaces))
        topo == build_topology(devices, <<>>)
        eds == InsertEdges(topo.edges, NewAcc(EmptyTable))
    IN  IF topo.raised \/ devs.dup \/ ifs.dup \/ eds.dup
        THEN [raised |-> TRUE, inv |-> inv, topo |-> topo]
        ELSE [raised |-> FALSE,
              inv |-> [devices |-> devs.tbl, interfaces |-> ifs.tbl,
                       edges |-> eds.tbl],
              topo |-> topo]

(* ========================= get_topology (router) ======================= *)
\* _is_router_device on the addresses, vendors and hostnames of the model
IsRouterDevice(row) ==
    \/ row.mgmt_ip \in {"10.0.0.1", "192.168.1.1"}
    \/ row.vendor \in {"Cisco", "Netgear"}
    \/ row.hostname \in {"router", "gateway"}

\* get_topology: one device_info per device, except that of the router-like
\* devices only the one met last is kept (router_device is overwritten);
\* keep is that device (None when there is none).
RouterChoices(inv) ==
    LET routers == {k \in DOMAIN inv.devices : IsRouterDevice(inv.devices[k])}
    IN  IF routers = {} THEN {None} ELSE routers

get_topology(inv, keep) ==
    [nodes |-> {k \in DOMAIN inv.devices :
                   (~IsRouterDevice(inv.devices[k])) \/ k = keep},
     edges |-> {[id |-> e, from |-> inv.edges[e].src_device_id,
                 to |-> inv.edges[e].dst_device_id] : e \in DOMAIN inv.edges}]

(* ================== UserSettings and the overrides ===================== *)
\* the user_settings table (models.py UserSettings): a function from the
\* primary key id (a MAC or an IP address) to the row
EmptySettings == <<>>

SettingRow(device_type, vendor, model, hostname) ==
    [device_type |-> device_type, vendor |-> vendor, model |-> model,
     hostname |-> hostname, notes |-> None]

\* d.get(k) of a dict given as a record
Get(d, k) == IF k \in DOMAIN d THEN d[k] ELSE None

\* get_device_mapping: <<>> for None, else the one-element list of the dict
get_device_mapping(settings, identifier, device_type) ==
    IF identifier \in DOMAIN settings
          /\ settings[identifier].device_type = device_type
    THEN << [vendor |-> settings[identifier].vendor,
             model |-> settings[identifier].model,
             hostname |-> settings[identifier].hostname,
             notes |-> settings[identifier].notes] >>
    ELSE <<>>

\* lines 86-90 and 96-100: the mapping written over the device data
WithMapping(device_data, mapping) ==
    [device_data EXCEPT !.vendor = mapping.vendor,
                        !.model = mapping.model,
                        !.hostname = IF Truthy(mapping.hostname)
                                     THEN mapping.hostname ELSE @]

\* apply_user_mappings_to_device trying the IP mapping before the MAC one
apply_user_mappings_ip_first(settings, device_data) ==
    LET mac == Get(device_data, "mac")
        ip == Get(device_data, "mgmtIp")
        mac_mapping == IF Truthy(mac) /\ mac # "Unknown"
                       THEN get_device_mapping(settings, mac, "mac_mapping")
                       ELSE <<>>
        ip_mapping == IF Truthy(ip)
                      THEN get_device_mapping(settings, ip, "ip_mapping")
                      ELSE <<>>
    IN  IF Len(ip_mapping) > 0 THEN WithMapping(device_data, ip_mapping[1])
        ELSE IF Len(mac_mapping) > 0 THEN WithMapping(device_data, mac_mapping[1])
        ELSE device_data

\* apply_user_mappings_to_device(db, device_data)
apply_user_mappings_to_device(settings, device_data) ==
    LET mac == Get(device_data, "mac")
        ip == Get(device_data, "mgmtIp")
        mac_mapping == IF Truthy(mac) /\ mac # "Unknown"
                       THEN get_device_mapping(settings, mac, "mac_mapping")
                       ELSE <<>>
        ip_mapping == IF Truthy(ip)
                      THEN get_device_mapping(settings, ip, "ip_mapping")
                      ELSE <<>>
    IN  IF Len(mac_mapping) > 0 THEN WithMapping(device_data, mac_mapping[1])
        ELSE IF Len(ip_mapping) > 0 THEN WithMapping(device_data, ip_mapping[1])
        ELSE device_data

\* device_data as _get_simple_arp_devices builds it (lines 712-725)
DeviceData(ip, hostname, vendor, mac) ==
    [id |-> ip, mgmtIp |-> ip, hostname |-> hostname, vendor |-> vendor,
     model |-> "Unknown", status |-> "up", mac |-> mac]

NoDeviceData == DeviceData(None, None, None, None)

NotApplied == [called |-> FALSE, data |-> NoDeviceData, settings |-> EmptySettings]

IdleOv ==
    /\ ovIn = NoDeviceData
    /\ ovOut = NotApplied

\* the mappings a user stores (PUT of a mapping): for the MAC
\* AA:BB:CC:00:00:01, for the address 10.0.0.9, and for the address 10.0.0.5
Mapping(id, device_type, vendor, model, hostname) ==
    [id |-> id, device_type |-> device_type, vendor |-> vendor,
     model |-> model, hostname |-> hostname]

MappingInputs ==
    { Mapping("AA:BB:CC:00:00:01", "mac_mapping", "Acme", "X1", None),
      Mapping("AA:BB:CC:00:00:01", "mac_mapping", "Acme", "X1", "acme-host"),
      Mapping("10.0.0.9", "ip_mapping", "Globex", "G2", None),
      Mapping("10.0.0.9", "ip_mapping", "Globex", "G2", "globex-host"),
      Mapping("10.0.0.5", "ip_mapping", "QNAP", "TS-453", None) }

\* the device data handed to apply_user_mappings_to_device
OvDevices ==
    { DeviceData(ip, "host-1", "Unknown", mac) :
        ip \in {"10.0.0.9", "10.0.0.8", None},
        mac \in {"AA:BB:CC:00:00:01", "DE:AD:BE:00:00:09", "Unknown", None} }

\* set_device_mapping: the row found by id and device_type is updated, or a
\* row is created, and the change is committed
SetDeviceMapping(m) ==
    /\ user_settings' = Put(user_settings, m.id,
                            SettingRow(m.device_type, m.vendor, m.model, m.hostname))
    /\ UNCHANGED <<now, cacheVars, db, run, last, manual, nEpochs, read,
                   probe_fault, callVars>>

\* delete_mapping: the row found by id and device_type is deleted
DeleteMapping(id, device_type) ==
    /\ id \in DOMAIN user_settings
    /\ user_settings[id].device_type = device_type
    /\ user_settings' = [k \in DOMAIN user_settings \ {id} |-> user_settings[k]]
    /\ UNCHANGED <<now, cacheVars, db, run, last, manual, nEpochs, read,
                   probe_fault, callVars>>

\* apply_user_mappings_to_device is called on ovIn with the table as it is
ApplyMappings ==
    /\ ~ovOut.called
    /\ ovOut' = [called |-> TRUE,
                 data |-> apply_user_mappings_to_device(user_settings, ovIn),
                 settings |-> user_settings]
    /\ UNCHANGED <<now, cacheVars, db, run, last, manual, nEpochs, read,
                   probe_fault, user_settings, ovIn, topoVars, macVars>>

(* ============ FastDiscoveryService._get_simple_arp_devices ============= *)
\* _get_simple_arp_devices(db): the mappings are applied to an entry only
\* under "if db:"; has_db is whether a session was passed.  run_discovery
\* calls discover_devices() with no argument, so db is None there.
get_simple_arp_devices(has_db, entries, settings) ==
    IF has_db
    THEN [i \in DOMAIN entries |->
             apply_user_mappings_to_device(settings, entries[i])]
    ELSE entries

\* an entry as _get_simple_arp_devices builds it: id and mgmtIp are the
\* ARP address, model 'Unknown', status 'up'
ArpBuilt(d) ==
    /\ Truthy(d.id)
    /\ d.id = d.mgmtIp
    /\ d.model = "Unknown"
    /\ d.status = "up"

\* The probe errs or times out (probe_fault): the except clauses of
\* _get_arp_table and _get_simple_arp_devices swallow the exception and the
\* list built so far is returned: the first k entries, k = 0 included.
PartialOutcomes ==
    UNION { {SubSeq(p, 1, k) : k \in 0..Len(p)} :
              p \in {q \in ProbeOutcomes :
                        \A i \in DOMAIN q : ArpBuilt(q[i])} }

\* what the probe returns: any list, or a partial one when it fails
ProbedEntries(failing) == IF failing THEN PartialOutcomes ELSE ProbeOutcomes

\* the ARP command starts to fail: it errs or times out from now on
ArpBreaks ==
    /\ probe_fault = "ok"
    /\ probe_fault' = "broken"
    /\ UNCHANGED <<now, cacheVars, db, run, last, manual, nEpochs,
                   user_settings, read, callVars>>

(* =========================== vendor lookup ============================= *)
\* A string is the sequence of its characters here, so that re.sub, upper()
\* and slicing are computed as Python computes them.
HexLower == {"0", "1", "2", "3", "4", "5", "6", "7", "8", "9",
             "a", "b", "c", "d", "e", "f"}
HexUpper == {"A", "B", "C", "D", "E", "F"}

\* str.upper() on one character
UpperChar(c) ==
    CASE c = "a" -> "A" [] c = "b" -> "B" [] c = "c" -> "C"
      [] c = "d" -> "D" [] c = "e" -> "E" [] c = "f" -> "F"
      [] OTHER -> c

IsHexChar(c) == c \in HexLower \cup HexUpper

\* re.sub(r'[^0-9A-Fa-f]', '', mac_address).upper()
mac_clean(mac_address) ==
    LET kept == SelectSeq(mac_address, IsHexChar)
    IN  [i \in DOMAIN kept |-> UpperChar(kept[i])]

\* self.oui_data: OUI key (six upper-case hex characters) to organization
Chars6(a, b, c, d, e, f) == <<a, b, c, d, e, f>>

oui_data ==
    (Chars6("A", "A", "B", "B", "C", "C") :> "Acme Corp")
    @@ (Chars6("0", "A", "0", "B", "0", "C") :> "Initech")
    @@ (Chars6("6", "A", "0", "6", "4", "4") :> "Hooli")
    @@ (Chars6("6", "A", "6", "4", "4", "2") :> "Globex")

\* OuiDatabase.lookup_vendor: the organization, or None
lookup_vendor(mac_address) ==
    IF Len(mac_address) = 0 THEN None
    ELSE LET clean == mac_clean(mac_address)
         IN  IF Len(clean) < OuiChars THEN None
             ELSE LET oui == SubSeq(clean, 1, OuiChars)
                  IN  IF oui \in DOMAIN oui_data THEN oui_data[oui] ELSE None

\* FastDiscoveryService._get_vendor_from_mac
get_vendor_from_mac(mac) ==
    IF Len(mac) = 0 \/ Len(mac) < MinMacLen THEN "Unknown"
    ELSE LET vendor == lookup_vendor(mac)
         IN  IF Truthy(vendor) THEN vendor ELSE "Unknown"

\* A hardware address is a sequence of octets, an octet a pair of lower-case
\* hex characters.
Octet(hi, lo) == <<hi, lo>>

MacAddresses ==
    { << Octet("a","a"), Octet("b","b"), Octet("c","c"),
         Octet("0","0"), Octet("0","0"), Octet("0","1") >>,
      << Octet("a","a"), Octet("b","b"), Octet("c","c"),
         Octet("1","2"), Octet("3","4"), Octet("5","6") >>,
      << Octet("0","a"), Octet("0","b"), Octet("0","c"),
         Octet("0","1"), Octet("0","2"), Octet("0","3") >>,
      << Octet("6","a"), Octet("0","6"), Octet("4","4"),
         Octet("2","6"), Octet("7","0"), Octet("e","3") >>,
      << Octet("d","e"), Octet("a","d"), Octet("b","e"),
         Octet("0","0"), Octet("0","0"), Octet("0","9") >> }

\* the text of one octet: two characters, or one when a leading zero is
\* not written (as arp prints 6a:6:44:26:70:e3)
OctetText(o, upper, padded) ==
    LET t == IF (~padded) /\ o[1] = "0" THEN <<o[2]>> ELSE o
    IN  IF upper THEN [i \in DOMAIN t |-> UpperChar(t[i])] ELSE t

\* octets written one after the other with sep between them
RECURSIVE JoinOctets(_, _, _, _)
JoinOctets(octets, sep, upper, padded) ==
    IF octets = <<>> THEN <<>>
    ELSE IF Len(octets) = 1 THEN OctetText(octets[1], upper, padded)
    ELSE OctetText(octets[1], upper, padded) \o sep
            \o JoinOctets(Tail(octets), sep, upper, padded)

\* the dotted style aabb.cc00.0001: a dot after every second octet
RECURSIVE JoinDotted(_, _)
JoinDotted(octets, upper) ==
    IF Len(octets) <= 2 THEN JoinOctets(octets, <<>>, upper, TRUE)
    ELSE JoinOctets(SubSeq(octets, 1, 2), <<>>, upper, TRUE) \o <<".">>
            \o JoinDotted(SubSeq(octets, 3, Len(octets)), upper)

\* the spellings of a hardware address: separator style, letter case, and
\* for the colon and dash styles whether leading zeros are written
MacStyles ==
    [sep : {"colon", "dash"}, upper : BOOLEAN, padded : BOOLEAN]
    \cup [sep : {"dot", "none"}, upper : BOOLEAN, padded : {TRUE}]

Spelling(octets, style) ==
    CASE style.sep = "colon" -> JoinOctets(octets, <<":">>, style.upper, style.padded)
      [] style.sep = "dash" -> JoinOctets(octets, <<"-">>, style.upper, style.padded)
      [] style.sep = "dot" -> JoinDotted(octets, style.upper)
      [] OTHER -> JoinOctets(octets, <<>>, style.upper, TRUE)

\* the address given: all six octets, or only its first three or two
MacInputs ==
    [address : MacAddresses, octets : {2, OuiOctets, 6}, style : MacStyles]

NoMacInput == [address |-> <<>>, octets |-> 0,
               style |-> [sep |-> "none", upper |-> FALSE, padded |-> TRUE]]

NotLooked == [called |-> FALSE, mac |-> <<>>, organization |-> None,
              vendor |-> None]

IdleMac ==
    /\ macIn = NoMacInput
    /\ macOut = NotLooked

\* _get_vendor_from_mac and lookup_vendor are called on the spelling
VendorLookup ==
    /\ ~macOut.called
    /\ LET mac == Spelling(SubSeq(macIn.address, 1, macIn.octets), macIn.style)
       IN  macOut' = [called |-> TRUE, mac |-> mac,
                      organization |-> lookup_vendor(mac),
                      vendor |-> get_vendor_from_mac(mac)]
    /\ UNCHANGED <<now, cacheVars, db, run, last, manual, nEpochs,
                   user_settings, read, probe_fault, topoVars, ovVars, macIn>>

(* ========================= inventory queries =========================== *)
\* what the last inventory query returned: the ids of the nodes or devices
\* and the edges of the answer, and whether an epoch was in flight (epoch is
\* the number of epochs started so far)
NoRead == [kind |-> "none", inflight |-> FALSE, epoch |-> 0,
           nodes |-> {}, edges |-> {}]

(* ============================== the system ============================= *)
Jobs == 1..MaxJobs

IdleRun == [pc |-> "idle", devices |-> <<>>, pre |-> EmptyInventory,
            reset |-> FALSE, probed |-> FALSE, settings |-> EmptySettings]

NoEpoch == [outcome |-> "none", devices |-> <<>>, pre |-> EmptyInventory,
            post |-> EmptyInventory, reset |-> FALSE, probed |-> FALSE,
            nodes |-> {}, edges |-> <<>>, settings |-> EmptySettings]

NoManual == [state |-> "none", force_refresh |-> FALSE, response |-> "none",
             epochRan |-> FALSE, probed |-> FALSE]

\* an event loop that lets a job start while an epoch is suspended
LoopFreeSuspending == TRUE

\* run_discovery awaits nothing but discover_devices, which awaits nothing:
\* once started an epoch runs to its end without yielding the event loop, so
\* a job or a request handler starts only when no epoch is in flight.
LoopFree == \A j \in Jobs : run[j].pc = "idle"

InitSys ==
    /\ now = 0
    /\ cache_file = NoFile
    /\ devices_cache = load_from_file(NoFile)[1]
    /\ last_update = load_from_file(NoFile)[2]
    /\ db \in InitialInventories
    /\ run = [j \in Jobs |-> IdleRun]
    /\ last = NoEpoch
    /\ manual = NoManual
    /\ nEpochs = 0

\* build_topology not called yet
NotBuilt == [called |-> FALSE, raised |-> FALSE, nodes |-> <<>>, edges |-> <<>>]

\* no call of build_topology on its own
IdleTopo ==
    /\ topoIn = [devices |-> <<>>, neighbors |-> <<>>]
    /\ topoOut = NotBuilt
    /\ topoPrev = NotBuilt

Init ==
    /\ InitSys
    /\ user_settings = EmptySettings
    /\ read = NoRead
    /\ probe_fault = "ok"
    /\ IdleTopo
    /\ IdleOv
    /\ IdleMac

\* the clock advances by one minute
Tick ==
    /\ now < MaxTime
    /\ now' = now + 1
    /\ UNCHANGED <<cacheVars, db, run, last, manual, nEpochs, user_settings, read, probe_fault, callVars>>

\* scheduler.py job() -> run_discovery lines 15-50: the cached probe, the
\* empty-result return, and the network-change reset with its own commit.
JobBegin(j) ==
    /\ LoopFree
    /\ nEpochs < MaxEpochs
    /\ run[j].pc = "idle"
    /\ \A k \in Jobs : k < j => run[k].pc # "idle"
    /\ \E entries \in ProbedEntries(probe_fault # "ok"), io \in IoOutcomes :
          LET probe == get_simple_arp_devices(FALSE, entries, user_settings)
              r == discover_devices(FALSE, devices_cache, last_update,
                                    cache_file, now, probe, io)
              changed == NetworkChanged(r.devices, db)
          IN  /\ devices_cache' = r.cache[1]
              /\ last_update' = r.cache[2]
              /\ cache_file' = r.cache[3]
              /\ probe_fault' = IF probe_fault = "ok" THEN "ok"
                                ELSE IF r.probed THEN "failed" ELSE "broken"
              /\ db' = BeginInventory(r.devices, db)
              /\ IF Len(r.devices) = 0
                 THEN /\ last' = [outcome |-> "empty", devices |-> r.devices,
                                  pre |-> db, post |-> db', reset |-> FALSE,
                                  probed |-> r.probed,
                                  nodes |-> ExistingNodes(db), edges |-> <<>>,
                                  settings |-> user_settings]
                      /\ UNCHANGED run
                 ELSE /\ run' = [run EXCEPT ![j] =
                                   [pc |-> "upsert", devices |-> r.devices,
                                    pre |-> db, reset |-> changed,
                                    probed |-> r.probed,
                                    settings |-> user_settings]]
                      /\ UNCHANGED last
    /\ nEpochs' = nEpochs + 1
    /\ UNCHANGED <<now, manual, user_settings, read, callVars>>

\* run_discovery lines 52-108: upserts, topology pass, edge replacement and
\* the commit; an exception leaves the job and the session is closed.
JobFinish(j) ==
    /\ run[j].pc = "upsert"
    /\ LET u == UpsertAndCommit(run[j].devices, db)
       IN  /\ db' = u.inv
           /\ last' = [outcome |-> IF u.raised THEN "raised" ELSE "committed",
                       devices |-> run[j].devices, pre |-> run[j].pre,
                       post |-> db',
                       reset |-> run[j].reset, probed |-> run[j].probed,
                       nodes |-> {}, edges |-> u.topo.edges,
                       settings |-> run[j].settings]
    /\ run' = [run EXCEPT ![j] = IdleRun]
    /\ UNCHANGED <<now, cacheVars, manual, nEpochs, user_settings, read, probe_fault, callVars>>

\* a POST /topology/discover request reaches the server; it is handled
\* when the event loop is free.
PostDiscover(force_refresh) ==
    /\ manual.state \in {"none", "failed"}
    /\ manual' = [NoManual EXCEPT !.state = "arrived",
                                  !.force_refresh = force_refresh]
    /\ UNCHANGED <<now, cacheVars, db, run, last, nEpochs, user_settings, read, probe_fault, callVars>>

\* trigger_discovery: reads the topology, creates the background task and
\* answers "discovery_started" with the topology read.
TriggerDiscovery ==
    /\ LoopFree
    /\ manual.state = "arrived"
    /\ \E keep \in RouterChoices(db) :
          manual' = [manual EXCEPT !.state = "scheduled",
                                   !.response = "discovery_started"]
    /\ UNCHANGED <<now, cacheVars, db, run, last, nEpochs, user_settings, read, probe_fault, callVars>>

\* background_discovery(): svc.run_discovery(db, force_refresh) passes two
\* arguments to a method that takes one (db), so the call raises TypeError
\* before any statement of run_discovery runs; except Exception catches it
\* and prints.  No epoch runs and no probe is invoked.
BackgroundDiscovery ==
    /\ LoopFree
    /\ manual.state = "scheduled"
    /\ manual' = [manual EXCEPT !.state = "failed", !.epochRan = FALSE,
                                !.probed = FALSE]
    /\ UNCHANGED <<now, cacheVars, db, run, last, nEpochs, user_settings, read, probe_fault, callVars>>

\* the process is restarted: module state is rebuilt, device_cache is
\* constructed afresh from the cache file, netview.db is kept.
Restart ==
    /\ devices_cache' = load_from_file(cache_file)[1]
    /\ last_update' = load_from_file(cache_file)[2]
    /\ run' = [j \in Jobs |-> IdleRun]
    /\ manual' = NoManual
    /\ UNCHANGED <<now, cache_file, db, last, nEpochs, user_settings, read, probe_fault, callVars>>

Next ==
    \/ Tick
    \/ \E j \in Jobs : JobBegin(j)
    \/ \E j \in Jobs : JobFinish(j)
    \/ \E f \in BOOLEAN : PostDiscover(f)
    \/ TriggerDiscovery
    \/ BackgroundDiscovery
    \/ Restart

Spec == Init /\ [][Next]_vars

(* ==================== the HTTP API beside the epochs =================== *)
\* GET /topology.  A sync def endpoint: it runs in a worker thread with its
\* own session, at any time, also between two commits of an epoch.
GetTopology ==
    /\ \E keep \in RouterChoices(db) :
          LET t == get_topology(db, keep)
          IN  read' = [kind |-> "topology", inflight |-> ~LoopFree,
                       epoch |-> nEpochs,
                       nodes |-> t.nodes, edges |-> t.edges]
    /\ UNCHANGED <<now, cacheVars, db, run, last, manual, nEpochs,
                   user_settings, probe_fault, callVars>>

\* GET /devices (list_devices), a sync def endpoint as well
ListDevices ==
    /\ read' = [kind |-> "devices", inflight |-> ~LoopFree,
                epoch |-> nEpochs,
                nodes |-> DOMAIN db.devices, edges |-> {}]
    /\ UNCHANGED <<now, cacheVars, db, run, last, manual, nEpochs,
                   user_settings, probe_fault, callVars>>

\* the bodies of POST /devices: a gateway and a core switch
DevicePayloads ==
    { [id |-> "10.0.0.1", hostname |-> "gateway", mgmt_ip |-> "10.0.0.1",
       vendor |-> "Netgear", model |-> "Unknown", status |-> "up"],
      [id |-> "10.0.0.2", hostname |-> "core-sw", mgmt_ip |-> "10.0.0.2",
       vendor |-> "Cisco", model |-> "Unknown", status |-> "up"] }

\* POST /devices (create_device): 400 when the id exists, else the row is
\* added and committed
CreateDevice(device) ==
    /\ device.id \notin DOMAIN db.devices
    /\ db' = [db EXCEPT !.devices =
                 Put(@, device.id,
                     DeviceRow(device.hostname, device.mgmt_ip, device.vendor,
                               device.model, device.status))]
    /\ UNCHANGED <<now, cacheVars, run, last, manual, nEpochs,
                   user_settings, read, probe_fault, callVars>>

\* the identifiers DELETE /devices/{device_id} is called with: a persisted
\* device, a device the probe reports, and one that POST /devices creates
DeleteTargets == {"10.0.0.5", "192.168.1.2", "10.0.0.1"}

\* DELETE /devices/{device_id} (delete_device): 404 when no such device,
\* else db.delete(device) and the commit.  Device.interfaces has no delete
\* cascade, so the flush keeps the interface rows of the device and sets
\* their device_id to NULL; edges are not looked at.
DeleteDevice(device_id) ==
    /\ device_id \in DOMAIN db.devices
    /\ db' = [db EXCEPT
                 !.devices = [k \in DOMAIN @ \ {device_id} |-> @[k]],
                 !.interfaces =
                     [k \in DOMAIN @ |->
                        IF @[k].device_id = device_id
                        THEN [@[k] EXCEPT !.device_id = None] ELSE @[k]]]
    /\ UNCHANGED <<now, cacheVars, run, last, manual, nEpochs,
                   user_settings, read, probe_fault, callVars>>

NextApi ==
    \/ \E j \in Jobs : JobBegin(j)
    \/ \E j \in Jobs : JobFinish(j)
    \/ GetTopology
    \/ ListDevices
    \/ \E device \in DevicePayloads : CreateDevice(device)

SpecApi == Init /\ [][NextApi]_vars

(* ============ the epochs beside device creation and deletion =========== *)
NextOwn ==
    \/ \E j \in Jobs : JobBegin(j)
    \/ \E j \in Jobs : JobFinish(j)
    \/ \E device \in DevicePayloads : CreateDevice(device)
    \/ \E device_id \in DeleteTargets : DeleteDevice(device_id)

SpecOwn == Init /\ [][NextOwn]_vars

(* ========= the epochs beside stored mappings and a failing probe ======= *)
\* the mappings for an address the probe can report
ObservableMappings ==
    {m \in MappingInputs :
        \E p \in ProbeOutcomes : \E i \in DOMAIN p : p[i].mgmtIp = m.id}

NextFaults ==
    \/ Tick
    \/ \E j \in Jobs : JobBegin(j)
    \/ \E j \in Jobs : JobFinish(j)
    \/ \E m \in ObservableMappings : SetDeviceMapping(m)
    \/ ArpBreaks

SpecFaults == Init /\ [][NextFaults]_vars

(* ================= build_topology on its own (pure function) =========== *)
SeqsUpTo(S, n) == UNION {[1..k -> S] : k \in 0..n}

swA == Obs("10.0.0.5", "10.0.0.5", "sw1", "Cisco", "Unknown", "up",
           <<Iface(1, "eth0", "aa:bb:cc:00:00:01")>>)
swB == Obs("10.0.0.6", "10.0.0.6", "sw2", "Cisco", "Unknown", "up",
           <<Iface(1, "eth0", "AA:BB:CC:00:00:02")>>)
\* a third device that declares the hostname of the first
swC == Obs("10.0.0.7", "10.0.0.7", "sw1", "HP", "Unknown", "up", <<>>)

TopoDeviceLists == { <<swA, swB>>, <<swB, swA, swC>>, <<swC, swA, swB>> }

TopoNeighbors ==
    { Neighbor("10.0.0.5", "1", None, "2", "sw2"),               \* A -> B by name
      Neighbor("10.0.0.6", "2", None, "1", "sw1"),               \* B -> A or C
      Neighbor("10.0.0.5", "3", "aa:bb:cc:00:00:02", None, None), \* A -> B by MAC
      Neighbor("10.0.0.7", "1", "AA:BB:CC:00:00:01", "1", "sw9"), \* C -> A by MAC
      Neighbor("10.0.0.9", "1", None, "1", "sw2"),               \* unknown local
      Neighbor("10.0.0.5", None, None, "1", "sw2"),              \* no local port
      Neighbor("10.0.0.5", "4", None, "4", "sw1"),               \* A -> A or C
      \* from C: the name is B's, the chassis MAC is A's
      Neighbor("10.0.0.7", "2", "aa:bb:cc:00:00:01", "2", "sw2") }

InitTopo ==
    /\ InitSys
    /\ user_settings = EmptySettings
    /\ read = NoRead
    /\ probe_fault = "ok"
    /\ topoIn \in [devices : TopoDeviceLists,
                   neighbors : SeqsUpTo(TopoNeighbors, MaxNeighbors)]
    /\ topoOut = NotBuilt
    /\ topoPrev = NotBuilt
    /\ IdleOv
    /\ IdleMac

\* build_topology keeping seen_edges from one call to the next
TopoCallKeepingSeen ==
    /\ ~topoPrev.called
    /\ LET seen == UNION { {EdgeKey(topoOut.edges[i].from, topoOut.edges[i].to),
                            EdgeKey(topoOut.edges[i].to, topoOut.edges[i].from)}
                           : i \in DOMAIN topoOut.edges }
       IN  topoOut' = [called |-> TRUE, raised |-> FALSE,
                       nodes |-> topoIn.devices,
                       edges |-> UniqueEdges(EmitEdges(topoIn.devices,
                                                       topoIn.neighbors), seen)]
    /\ topoPrev' = topoOut
    /\ UNCHANGED <<now, cacheVars, db, run, last, manual, nEpochs, topoIn,
                   user_settings, read, probe_fault, ovVars, macVars>>

\* build_topology is called on the devices and neighbor observations, up to
\* twice on the same arguments; topoPrev is the result of the call before.
\* The function assigns to locals only: its arguments are left as they are.
TopoCall ==
    /\ ~topoPrev.called
    /\ LET t == build_topology(topoIn.devices, topoIn.neighbors)
       IN  topoOut' = [called |-> TRUE, raised |-> t.raised,
                       nodes |-> t.nodes, edges |-> t.edges]
    /\ topoPrev' = topoOut
    /\ UNCHANGED <<now, cacheVars, db, run, last, manual, nEpochs, topoIn,
                   user_settings, read, probe_fault, ovVars, macVars>>

NextTopo == TopoCall

SpecTopo == InitTopo /\ [][NextTopo]_vars

(* ================== the vendor lookup on its own ======================= *)
InitMac ==
    /\ InitSys
    /\ user_settings = EmptySettings
    /\ read = NoRead
    /\ probe_fault = "ok"
    /\ IdleTopo
    /\ IdleOv
    /\ macIn \in MacInputs
    /\ macOut = NotLooked

NextMac == VendorLookup

SpecMac == InitMac /\ [][NextMac]_vars

(* ================= the overrides on their own ========================== *)
InitOv ==
    /\ InitSys
    /\ user_settings = EmptySettings
    /\ read = NoRead
    /\ probe_fault = "ok"
    /\ IdleTopo
    /\ IdleMac
    /\ ovIn \in OvDevices
    /\ ovOut = NotApplied

NextOv ==
    \/ \E m \in MappingInputs : SetDeviceMapping(m)
    \/ \E m \in MappingInputs : DeleteMapping(m.id, m.device_type)
    \/ ApplyMappings

SpecOv == InitOv /\ [][NextOv]_vars

(* ================================ claims =============================== *)
ObservedIps(devices) ==
    {devices[i].mgmtIp : i \in {j \in DOMAIN devices : Truthy(devices[j].mgmtIp)}}

PersistedIps(inv) == {inv.devices[k].mgmt_ip : k \in DOMAIN inv.devices}

ObservedIds(devices) ==
    {Identity(devices[i]) : i \in {j \in DOMAIN devices : Truthy(Identity(devices[j]))}}

ObservedIfaceIds(devices) ==
    UNION { {Fmt(Identity(devices[i]), ":", ToString(devices[i].interfaces[n].ifIndex))
                : n \in DOMAIN devices[i].interfaces} : i \in DOMAIN devices }

EpochEnded == last.outcome \in {"committed", "raised"}

\* C1 (empty-probe safety): when an epoch obtains zero observations, the
\* persisted devices, interfaces and edges after the epoch are exactly those
\* before it.
C1_EmptyProbeKeepsInventory ==
    last.outcome = "empty" => last.post = last.pre

\* C1 witness: a probe returned nothing while devices, an interface and an
\* edge were persisted.
C1_Witness ==
    /\ last.outcome = "empty"
    /\ last.probed
    /\ last.pre = SeededInventory
    /\ last.post = SeededInventory

\* C2 (network-change reset), as claimed: if the persisted management
\* addresses are non-empty and share no address with the addresses observed
\* in the epoch, then after the epoch the inventory holds exactly the devices
\* observed in it, none of the earlier interfaces, and no edge.
C2_NetworkChangeReset ==
    (/\ EpochEnded
     /\ PersistedIps(last.pre) # {}
     /\ PersistedIps(last.pre) \cap ObservedIps(last.devices) = {})
    => /\ DOMAIN last.post.devices = ObservedIds(last.devices)
       /\ DOMAIN last.post.interfaces = ObservedIfaceIds(last.devices)
       /\ DOMAIN last.post.edges = {}

\* the value a field must have after a partial update
Kept(observed, stored) == IF observed = None THEN stored ELSE observed

\* C3 (upsert partial-update), as claimed: when a committed epoch upserts an
\* observation of a device that is already persisted, every field absent
\* from the observation keeps its stored value and every field present is
\* overwritten with the observed value.
C3_PartialUpdate ==
    (last.outcome = "committed" /\ ~last.reset)
    => \A i \in DOMAIN last.devices :
          LET d == last.devices[i]
              k == Identity(d)
          IN  (/\ Truthy(k)
               /\ k \in DOMAIN last.pre.devices
               /\ \A j \in DOMAIN last.devices :
                     j > i => Identity(last.devices[j]) # k)
              => /\ k \in DOMAIN last.post.devices
                 /\ last.post.devices[k] =
                       DeviceRow(Kept(d.hostname, last.pre.devices[k].hostname),
                                 Kept(d.mgmtIp, last.pre.devices[k].mgmt_ip),
                                 Kept(d.vendor, last.pre.devices[k].vendor),
                                 Kept(d.model, last.pre.devices[k].model),
                                 Kept(d.status, last.pre.devices[k].status))

\* C4 (stale-but-usable cache), as claimed: a read of the cache after the
\* TTL has elapsed still returns the device list last put; an expired
\* non-empty cache is never returned as an empty list.
C4_StaleButUsable ==
    (last_update # NoTime /\ now - last_update >= cache_duration_minutes)
    => get_cached_devices(devices_cache, last_update, now) = devices_cache

\* C5 (cache validity): the cache is valid at every instant strictly less
\* than one TTL after the most recent update, invalid at last_update + TTL
\* and later, and invalid when it was never updated.
C5_CacheValidity ==
    /\ last_update = NoTime => ~is_cache_valid(last_update, now)
    /\ (last_update # NoTime /\ now < last_update + cache_duration_minutes)
          => is_cache_valid(last_update, now)
    /\ (last_update # NoTime /\ now >= last_update + cache_duration_minutes)
          => ~is_cache_valid(last_update, now)

\* C5 witness: exactly one TTL after an update of a non-empty cache.
C5_Witness ==
    /\ last_update # NoTime
    /\ Len(devices_cache) > 0
    /\ now = last_update + cache_duration_minutes

\* C6 (put / crash-recovery round trip), as claimed: a put replaces the
\* whole snapshot, and once it has returned a cache constructed afresh from
\* the cache file holds the same devices and the same timestamp.
C6_PutRoundTrip ==
    /\ \A j \in Jobs :
          (run[j].pc = "upsert" /\ run[j].probed)
          => Range(devices_cache) \subseteq Range(run[j].devices)
    /\ last_update # NoTime
          => load_from_file(cache_file) = <<devices_cache, last_update>>

\* C7 (no overlapping epochs): at no time are two executions of
\* run_discovery in flight, and a manual trigger that arrives or is handled
\* while an epoch is in flight leaves that epoch as it is.
C7_NoOverlappingEpochs ==
    /\ [](Cardinality({j \in Jobs : run[j].pc # "idle"}) <= 1)
    /\ [][(manual' # manual /\ manual'.state # "none") => run' = run]_vars

\* C7 witness: a manual trigger has arrived while an epoch is in flight.
C7_Witness ==
    /\ \E j \in Jobs : run[j].pc = "upsert"
    /\ manual.state = "arrived"

\* C8 (a manual trigger is never silently dropped), as claimed: a caller
\* who was told that discovery started gets an epoch run for that trigger.
C8_TriggerNeverDropped ==
    (manual.state \in {"failed", "completed"}
     /\ manual.response = "discovery_started")
    => manual.epochRan

\* C9 (forceRefresh bypasses the cache), as claimed: an epoch started by the
\* manual trigger with force_refresh = true invokes the probe, also when the
\* cache is valid and non-empty; without force_refresh a valid non-empty
\* cache is served and no probe runs.
C9_ForceRefreshBypassesCache ==
    /\ (/\ manual.state \in {"failed", "completed"}
        /\ manual.force_refresh
        /\ is_cache_valid(last_update, now)
        /\ Len(devices_cache) > 0)
          => manual.probed
    /\ (is_cache_valid(last_update, now) /\ Len(devices_cache) > 0)
          => LET r == discover_devices(FALSE, devices_cache, last_update,
                                       cache_file, now, <<devC>>, "ok")
             IN  (~r.probed) /\ r.devices = devices_cache

\* C10 (dedup invariant): the edge list returned by build_topology holds at
\* most one edge per unordered device pair.
C10_DedupInvariant ==
    topoOut.called
    => \A i, j \in DOMAIN topoOut.edges :
          i # j => {topoOut.edges[i].from, topoOut.edges[i].to}
                     # {topoOut.edges[j].from, topoOut.edges[j].to}

\* C10 witness: the link between 10.0.0.5 and 10.0.0.6 reported as A->B,
\* as B->A and as A->B again yields one edge.
C10_Witness ==
    /\ topoOut.called
    /\ topoIn.devices = <<swA, swB>>
    /\ topoIn.neighbors = << Neighbor("10.0.0.5", "1", None, "2", "sw2"),
                             Neighbor("10.0.0.6", "2", None, "1", "sw1"),
                             Neighbor("10.0.0.5", "1", None, "2", "sw2") >>
    /\ Len(topoOut.edges) = 1

\* the management addresses of the devices given to build_topology
TopoDeviceIps == {topoIn.devices[i].mgmtIp : i \in DOMAIN topoIn.devices}

\* C11 (edge endpoints), as claimed: every edge returned by build_topology
\* joins two distinct devices of the input device set, so an observation
\* whose local or remote device is not in the set, or whose remote is the
\* local device, yields no edge; every edge has link type lldp and
\* confidence 90.
C11_EdgeEndpoints ==
    topoOut.called
    => \A i \in DOMAIN topoOut.edges :
          /\ topoOut.edges[i].from \in TopoDeviceIps
          /\ topoOut.edges[i].to \in TopoDeviceIps
          /\ topoOut.edges[i].from # topoOut.edges[i].to
          /\ topoOut.edges[i].linkType = "lldp"
          /\ topoOut.edges[i].confidence = 90

MacOverride(s, d) ==
    /\ Truthy(Get(d, "mac"))
    /\ d.mac # "Unknown"
    /\ d.mac \in DOMAIN s
    /\ s[d.mac].device_type = "mac_mapping"

\* the device has a management address for which table s holds an override
IpOverride(s, d) ==
    /\ Truthy(d.mgmtIp)
    /\ d.mgmtIp \in DOMAIN s
    /\ s[d.mgmtIp].device_type = "ip_mapping"

\* device d with vendor and model of override row o, and its hostname when
\* the override names one; nothing else of d is touched
Overridden(d, o) ==
    [d EXCEPT !.vendor = o.vendor, !.model = o.model,
              !.hostname = IF Truthy(o.hostname) THEN o.hostname ELSE @]

\* C13 (override precedence): with an override for the hardware address the
\* result carries that override's vendor and model and nothing of the
\* management-address override, also when both exist; the management-address
\* override is used only when no hardware-address override matches; when
\* neither matches the device data is returned unchanged.
C13_OverridePrecedence ==
    ovOut.called
    => LET s == ovOut.settings
       IN  /\ MacOverride(s, ovIn)
                => ovOut.data = Overridden(ovIn, s[ovIn.mac])
           /\ ((~MacOverride(s, ovIn)) /\ IpOverride(s, ovIn))
                => ovOut.data = Overridden(ovIn, s[ovIn.mgmtIp])
           /\ ((~MacOverride(s, ovIn)) /\ (~IpOverride(s, ovIn)))
                => ovOut.data = ovIn

\* C13 witness: the device AA:BB:CC:00:00:01 / 10.0.0.9 with conflicting
\* overrides for both addresses, the one for the management address naming
\* a hostname as well; the result is Acme X1 under the device's own hostname.
C13_Witness ==
    /\ ovOut.called
    /\ MacOverride(ovOut.settings, ovIn)
    /\ IpOverride(ovOut.settings, ovIn)
    /\ ovOut.settings[ovIn.mgmtIp].vendor # ovOut.settings[ovIn.mac].vendor
    /\ Truthy(ovOut.settings[ovIn.mgmtIp].hostname)
    /\ ~Truthy(ovOut.settings[ovIn.mac].hostname)
    /\ ovOut.data.vendor = "Acme"
    /\ ovOut.data.model = "X1"
    /\ ovOut.data.hostname = "host-1"

\* C14 (overrides applied inside every epoch), as claimed: for every
\* observation upserted by a committed epoch, if the settings table held an
\* override for its hardware address, or failing that for its management
\* address, when the epoch probed, the persisted record carries the
\* override's vendor and model.
C14_OverridesInEpoch ==
    last.outcome = "committed"
    => \A i \in DOMAIN last.devices :
          LET d == last.devices[i]
              k == Identity(d)
              s == last.settings
          IN  (/\ Truthy(k)
               /\ \A j \in DOMAIN last.devices :
                     j > i => Identity(last.devices[j]) # k)
              => /\ MacOverride(s, d)
                      => /\ last.post.devices[k].vendor = s[d.mac].vendor
                         /\ last.post.devices[k].model = s[d.mac].model
                 /\ ((~MacOverride(s, d)) /\ IpOverride(s, d))
                      => /\ last.post.devices[k].vendor = s[d.mgmtIp].vendor
                         /\ last.post.devices[k].model = s[d.mgmtIp].model

\* the device ids that only an epoch writes (not those of POST /devices)
EpochOwned(ids) == ids \ {p.id : p \in DevicePayloads}

\* C15 (no torn reads), as claimed: a device listing taken while an epoch
\* was in flight shows, of the devices the epochs maintain, either those
\* persisted before that epoch or those persisted when it ended.
C15_NoTornReads ==
    (/\ read.kind = "devices"
     /\ read.inflight
     /\ read.epoch = nEpochs
     /\ LoopFree
     /\ EpochEnded)
    => \/ EpochOwned(read.nodes) = EpochOwned(DOMAIN last.pre.devices)
       \/ EpochOwned(read.nodes) = EpochOwned(DOMAIN last.post.devices)

\* C16 (getTopology reflects the whole inventory), as claimed: the answer of
\* GET /topology has exactly one node per persisted device and exactly one
\* edge per persisted edge, and is empty when nothing is persisted.
C16_TopologyReflectsInventory ==
    [][(read' # read /\ read'.kind = "topology")
         => /\ read'.nodes = DOMAIN db.devices
            /\ {e.id : e \in read'.edges} = DOMAIN db.edges
            /\ Cardinality(read'.edges) = Cardinality(DOMAIN db.edges)]_vars

\* C17 (the cache is written only in the commit step), as claimed: the part
\* of an epoch that precedes its commit leaves the cache snapshot, its
\* timestamp and the cache file as they are, and the cache file changes
\* only in a step that commits an epoch's inventory.
C17_CacheWrittenAtCommit ==
    [][/\ (\E j \in Jobs : run[j].pc = "idle" /\ run'[j].pc = "upsert")
            => UNCHANGED <<devices_cache, last_update, cache_file>>
       /\ cache_file' # cache_file
            => /\ \E j \in Jobs : run[j].pc = "upsert" /\ run'[j].pc = "idle"
               /\ last'.outcome = "committed"]_vars

\* C18 (failed cache write), as claimed: when the write of the cache file
\* fails during a put (the file is left as it was, or left unreadable), the
\* in-memory device map and timestamp keep their previous content; a
\* readable cache file always holds the snapshot that is in memory.
C18_FailedWriteKeepsMemory ==
    /\ [](cache_file.state = "json"
            => /\ cache_file.devices = devices_cache
               /\ cache_file.last_update = isoformat(last_update))
    /\ [][(/\ nEpochs' # nEpochs
            /\ (cache_file'.state = "corrupt" \/ cache_file' = cache_file))
           => (devices_cache' = devices_cache /\ last_update' = last_update)]_vars

\* C19 (a probe failure never escapes an epoch), as claimed: an epoch whose
\* probe erred or timed out, yielding an empty or partial list, ends by
\* returning a snapshot; it does not raise.
C19_ProbeFailureContained ==
    (probe_fault = "failed" /\ LoopFree /\ last.outcome # "none")
    => last.outcome \in {"empty", "committed"}

\* the organization registered for the leading 24 bits of an address
OrgOfPrefix(address) ==
    LET key == JoinOctets(SubSeq(address, 1, OuiOctets), <<>>, TRUE, TRUE)
    IN  IF key \in DOMAIN oui_data THEN oui_data[key] ELSE None

\* C20 (vendor lookup by the leading 24 bits), as claimed: every spelling
\* of an address (any letter case, colon, dash, dot or no separator, leading
\* zeros written or not) resolves to the organization registered for the
\* address's leading 24 bits, and an address with fewer than 24 bits
\* resolves to unknown.
C20_VendorByPrefix ==
    macOut.called
    => IF macIn.octets < OuiOctets
       THEN macOut.organization = None /\ macOut.vendor = "Unknown"
       ELSE /\ macOut.organization = OrgOfPrefix(macIn.address)
            /\ macOut.vendor = IF OrgOfPrefix(macIn.address) = None
                                THEN "Unknown"
                                ELSE OrgOfPrefix(macIn.address)


\* C21 (observations are persisted), as claimed: after an epoch whose probe
\* returned a non-empty list, every observation with an identity is a
\* persisted device under that identity, and every interface it lists is
\* persisted under the key (identity, ifIndex).
C21_ObservationsPersisted ==
    (EpochEnded /\ Len(last.devices) > 0)
    => /\ ObservedIds(last.devices) \subseteq DOMAIN last.post.devices
       /\ \A i \in DOMAIN last.devices :
             Truthy(Identity(last.devices[i]))
             => \A n \in DOMAIN last.devices[i].interfaces :
                   LET k == Fmt(Identity(last.devices[i]), ":",
                                ToString(last.devices[i].interfaces[n].ifIndex))
                   IN  /\ k \in DOMAIN last.post.interfaces
                       /\ last.post.interfaces[k].device_id
                             = Identity(last.devices[i])
                       /\ last.post.interfaces[k].if_index
                             = last.devices[i].interfaces[n].ifIndex

C27_LaterObservationWins ==
    \A i, j \in DOMAIN last.devices :
       (/\ EpochEnded
        /\ i < j
        /\ Truthy(Identity(last.devices[i]))
        /\ Identity(last.devices[i]) = Identity(last.devices[j])
        /\ \A m \in DOMAIN last.devices :
              m > j => Identity(last.devices[m]) # Identity(last.devices[j]))
       => /\ last.outcome = "committed"
          /\ Identity(last.devices[j]) \in DOMAIN last.post.devices
          /\ last.post.devices[Identity(last.devices[j])]
                = AssignDevice(last.devices[j])


\* the edges build_topology appends before its duplicate filter runs
Emitted == EmitEdges(topoIn.devices, topoIn.neighbors)

\* the two identities an edge joins
Pair(e) == {e.from, e.to}

\* the positions of the emitted edges that no earlier emitted edge shares
\* its two identities with
FirstOfPair ==
    { i \in DOMAIN Emitted :
        \A j \in DOMAIN Emitted : j < i => Pair(Emitted[j]) # Pair(Emitted[i]) }

\* C23 (the first edge of a pair is kept): the output is, in emission order,
\* exactly the emitted edges that are the earliest of their unordered device
\* pair: the earliest edge of every pair is present, no other edge is, and
\* an emitted edge is discarded only if an earlier one joins the same two
\* identities.
C23_FirstEdgeKept ==
    (topoOut.called /\ ~topoOut.raised)
    => /\ Len(topoOut.edges) = Cardinality(FirstOfPair)
       /\ \A k \in DOMAIN topoOut.edges :
             \E i \in FirstOfPair :
                /\ Cardinality({j \in FirstOfPair : j <= i}) = k
                /\ topoOut.edges[k] = Emitted[i]

\* C23 witness: the link between 10.0.0.5 and 10.0.0.6 is reported from
\* port 1 of 10.0.0.5, then from 10.0.0.6, then from port 3 of 10.0.0.5;
\* the edge of port 1 is the one returned.
C23_Witness ==
    /\ topoOut.called
    /\ topoIn.devices = <<swA, swB>>
    /\ topoIn.neighbors = << Neighbor("10.0.0.5", "1", None, "2", "sw2"),
                             Neighbor("10.0.0.6", "2", None, "1", "sw1"),
                             Neighbor("10.0.0.5", "3", "aa:bb:cc:00:00:02", None, None) >>
    /\ Len(topoOut.edges) = 1
    /\ topoOut.edges[1].id = "10.0.0.5:1-10.0.0.6:2"


\* the positions of the devices whose hostname is the system name of the
\* observation
NamedBy(n) ==
    { i \in DOMAIN topoIn.devices :
        n.sysName # None /\ n.sysName # "" /\ topoIn.devices[i].hostname = n.sysName }

\* the positions of the devices owning an interface whose MAC is the chassis
\* identifier of the observation, letter case ignored
OwningMac(n) ==
    { i \in DOMAIN topoIn.devices :
        /\ n.chassisId # None /\ n.chassisId # ""
        /\ \E f \in DOMAIN topoIn.devices[i].interfaces :
              Upper(topoIn.devices[i].interfaces[f].mac) = Upper(n.chassisId) }

\* the smallest position of a non-empty set of positions
FirstPos(S) == CHOOSE i \in S : \A j \in S : i <= j

\* the remote device the resolution order names for an observation
ExpectedRemote(n) ==
    IF NamedBy(n) # {} THEN topoIn.devices[FirstPos(NamedBy(n))].mgmtIp
    ELSE IF OwningMac(n) # {} THEN topoIn.devices[FirstPos(OwningMac(n))].mgmtIp
    ELSE None

\* C24 (resolution order): the remote end of every returned edge is, for
\* the observation the edge was made from, the first device in list order
\* whose hostname equals the observation's sysName, and the first device in
\* list order owning an interface with the chassis MAC (case-insensitive)
\* only when no hostname matched; and every observation that names a local
\* device and port and resolves to another device has its link returned.
C24_ResolutionOrder ==
    (topoOut.called /\ ~topoOut.raised)
    => /\ \A k \in DOMAIN topoOut.edges :
             \E i \in DOMAIN topoIn.neighbors :
                LET n == topoIn.neighbors[i]
                IN  /\ topoOut.edges[k].from = n.localDevice
                    /\ topoOut.edges[k].srcIfIndex = n.localPort
                    /\ topoOut.edges[k].dstIfIndex = OrEmpty(n.portId)
                    /\ topoOut.edges[k].to = ExpectedRemote(n)
       /\ \A i \in DOMAIN topoIn.neighbors :
             LET n == topoIn.neighbors[i]
             IN  (/\ n.localDevice # None /\ n.localPort # None
                  /\ ExpectedRemote(n) # None
                  /\ ExpectedRemote(n) # n.localDevice)
                 => \E k \in DOMAIN topoOut.edges :
                       Pair(topoOut.edges[k]) = {n.localDevice, ExpectedRemote(n)}

\* C24 witness: 10.0.0.7 reports a neighbor whose system name is the hostname
\* of 10.0.0.6 and whose chassis MAC belongs to 10.0.0.5; the returned edge
\* ends at 10.0.0.6.
C24_Witness ==
    /\ topoOut.called
    /\ topoIn.devices = <<swC, swA, swB>>
    /\ topoIn.neighbors = << Neighbor("10.0.0.7", "2", "aa:bb:cc:00:00:01", "2", "sw2") >>
    /\ Len(topoOut.edges) = 1
    /\ topoOut.edges[1].to = "10.0.0.6"


C26_InterfaceOwnership ==
    /\ \A k \in DOMAIN db.interfaces :
          db.interfaces[k].device_id \in DOMAIN db.devices
    /\ \A k1, k2 \in DOMAIN db.interfaces :
          (/\ db.interfaces[k1].device_id = db.interfaces[k2].device_id
           /\ db.interfaces[k1].if_index = db.interfaces[k2].if_index)
          => k1 = k2


\* a step in which an epoch starts
EpochStarts == nEpochs' = nEpochs + 1

\* the epoch starting in this step is served from the cache
ServedFromCache ==
    /\ EpochStarts
    /\ \E j \in Jobs : run[j].pc = "idle" /\ run'[j].pc = "upsert"
                       /\ ~run'[j].probed

\* the epoch starting in this step invokes the probe
FreshProbe ==
    /\ EpochStarts
    /\ \/ \E j \in Jobs : run[j].pc = "idle" /\ run'[j].pc = "upsert"
                          /\ run'[j].probed
       \/ run' = run /\ last'.outcome = "empty" /\ last'.probed

\* C28 (cache reads never extend validity): an epoch served from the cache
\* leaves last_update and the snapshot unchanged; no step other than an
\* epoch's fresh probe moves last_update forward; and an epoch that starts
\* when the cache was never put, or one TTL or more after last_update,
\* executes a fresh probe.
C28_ReadsKeepExpiry ==
    [][/\ ServedFromCache
            => /\ last_update' = last_update
               /\ devices_cache' = devices_cache
               /\ now < last_update + cache_duration_minutes
       /\ last_update' > last_update => FreshProbe
       /\ (EpochStarts /\ (last_update = NoTime
                           \/ now >= last_update + cache_duration_minutes))
            => FreshProbe]_vars

\* C28 witness: an epoch was served from the cache after the clock had
\* advanced past the put, and the timestamp is still that of the put.
C28_Witness ==
    /\ last.outcome = "committed"
    /\ ~last.probed
    /\ last_update # NoTime
    /\ last_update < now
    /\ now < last_update + cache_duration_minutes

\* C29 (an empty probe leaves the cache untouched): an epoch whose fresh
\* probe yields no device leaves the snapshot, its timestamp and the cache
\* file as they are; the snapshot and its timestamp are changed only by an
\* epoch whose fresh probe returned at least one device (a restarted process
\* builds its cache from the cache file).
C29_EmptyProbeKeepsCache ==
    [][/\ (EpochStarts /\ run' = run /\ last'.outcome = "empty")
            => UNCHANGED <<devices_cache, last_update, cache_file>>
       /\ <<devices_cache, last_update>>' # <<devices_cache, last_update>>
            => \/ \E j \in Jobs : /\ run[j].pc = "idle" /\ run'[j].pc = "upsert"
                                  /\ run'[j].probed
                                  /\ Len(run'[j].devices) > 0
               \/ /\ ~EpochStarts
                  /\ <<devices_cache, last_update>>' = load_from_file(cache_file)]_vars

\* C29 witness: a fresh probe came back empty while the cache held the
\* devices of an earlier put, and the cache still holds them.
C29_Witness ==
    /\ last.outcome = "empty"
    /\ last.probed
    /\ nEpochs = MaxEpochs
    /\ Len(devices_cache) > 0
    /\ last_update # NoTime
    /\ now >= last_update + cache_duration_minutes


\* the step in which an epoch detects a network change and empties the
\* inventory
ResetStep ==
    /\ EpochStarts
    /\ \E j \in Jobs : run[j].pc = "idle" /\ run'[j].pc = "upsert"
                       /\ run'[j].reset

\* a step of an epoch: its start, or its upserts and commit
EpochStep ==
    \/ EpochStarts
    \/ \E j \in Jobs : run[j].pc = "upsert" /\ run'[j].pc = "idle"

\* no persisted device and no persisted interface is removed by the step
KeepsRecords ==
    /\ DOMAIN db.devices \subseteq DOMAIN db'.devices
    /\ DOMAIN db.interfaces \subseteq DOMAIN db'.interfaces

====
